---------------------------- MODULE Spec2Model ----------------------------
(***************************************************************************)
(* Model of the discover-granules task (tasks/discover-granules/index.js): *)
(* listing, classification of files into granule groups, duplicate         *)
(* resolution against the catalog (Granules API) and granule building;     *)
(* and of the provider migration (lambdas/data-migration1/src/providers.ts) *)
(* from DynamoDB to the relational providers table.                        *)
(*                                                                         *)
(* JavaScript values are modelled as follows.                              *)
(*  - A file name is a record [stem, ext] standing for the string          *)
(*    stem + "." + ext; a file descriptor is a record with a name field.   *)
(*  - A plain object is a sequence of entries [key, value] kept in the     *)
(*    order Object.keys reports: array-index keys ("2", "10") first, in    *)
(*    ascending numeric order, then the other string keys in insertion     *)
(*    order.                                                               *)
(*  - A value that may be null or undefined is a tagged record [t, v].     *)
(*  - An Error is a record; its message is the sequence of the parts of    *)
(*    the template literal that builds it.                                 *)
(***************************************************************************)
EXTENDS Integers, Sequences, FiniteSets, TLC

(***************************************************************************)
(* Bounds                                                                  *)
(***************************************************************************)
\* longest listing the provider returns
MaxFiles == 2
\* most items the DynamoDB providers table holds
MaxRecords == 2

(***************************************************************************)
(* JavaScript values                                                       *)
(***************************************************************************)
JsNull == [t |-> "null", v |-> ""]
JsUndefined == [t |-> "undefined", v |-> ""]
JsString(s) == [t |-> "string", v |-> s]

\* property-key coercion of a groupBy key: String(value)
ToPropertyKey(val) ==
    CASE val.t = "null" -> "null"
      [] val.t = "undefined" -> "undefined"
      [] OTHER -> val.v

\* the numeric value of a key that is a canonical array index, -1 otherwise
ArrayIndexOf(key) ==
    CASE key = "2" -> 2
      [] key = "10" -> 10
      [] OTHER -> -1

IsArrayIndex(key) == ArrayIndexOf(key) >= 0

\* Boolean(s) for a string s
Truthy(s) == s /= ""

(***************************************************************************)
(* Sequence helpers                                                        *)
(***************************************************************************)
RECURSIVE FilterSeq(_, _)
\* Array.prototype.filter with the predicate given as the set of values kept
FilterSeq(s, keep) ==
    IF s = <<>> THEN <<>>
    ELSE IF Head(s) \in keep THEN <<Head(s)>> \o FilterSeq(Tail(s), keep)
    ELSE FilterSeq(Tail(s), keep)

Range(s) == {s[i] : i \in DOMAIN s}

IsInjective(s) == \A i, j \in DOMAIN s : s[i] = s[j] => i = j

RemoveAt(s, i) == SubSeq(s, 1, i - 1) \o SubSeq(s, i + 1, Len(s))

(***************************************************************************)
(* Plain objects: sequences of [key, value] in Object.keys order           *)
(***************************************************************************)
ObjKeys(obj) == [i \in DOMAIN obj |-> obj[i].key]

ObjHas(obj, key) == \E i \in DOMAIN obj : obj[i].key = key

ObjGet(obj, key) == obj[CHOOSE i \in DOMAIN obj : obj[i].key = key].value

\* faulty variant: a new property always goes last, whatever its key
InsertPos_Append(obj, key) == Len(obj)

\* number of entries that stay in front of a newly created property `key`
InsertPos(obj, key) ==
    IF IsArrayIndex(key)
    THEN Cardinality({i \in DOMAIN obj :
            IsArrayIndex(obj[i].key) /\ ArrayIndexOf(obj[i].key) < ArrayIndexOf(key)})
    ELSE Len(obj)

\* obj[key] = value
ObjSet(obj, key, value) ==
    IF ObjHas(obj, key)
    THEN [i \in DOMAIN obj |->
            IF obj[i].key = key THEN [key |-> key, value |-> value] ELSE obj[i]]
    ELSE LET p == InsertPos(obj, key)
         IN  SubSeq(obj, 1, p) \o <<[key |-> key, value |-> value]>>
                \o SubSeq(obj, p + 1, Len(obj))

RECURSIVE ObjDelete(_, _)
\* delete obj[key]
ObjDelete(obj, key) ==
    IF obj = <<>> THEN <<>>
    ELSE IF Head(obj).key = key THEN ObjDelete(Tail(obj), key)
    ELSE <<Head(obj)>> \o ObjDelete(Tail(obj), key)

(***************************************************************************)
(* Classification                                                          *)
(***************************************************************************)
Name(stem, ext) == [stem |-> stem, ext |-> ext]

\* the file names a listing may contain
FileNames ==
    { Name("A1", "dat"), Name("A1", "qa"), Name("null", "dat"),
      Name("", "dat"), Name("2", "dat"), Name("A1", "txt") }

Files == {[name |-> n] : n \in FileNames}

\* granuleIdExtraction ^(.*)\.(dat|qa)$ : group 1 always participates
PatternGreedy == [exts |-> {"dat", "qa"}, group |-> "always"]
\* granuleIdExtraction ^(\w+)?\.(dat|qa)$ : group 1 is optional
PatternOptional == [exts |-> {"dat", "qa"}, group |-> "optional"]

Patterns == {PatternGreedy, PatternOptional}

\* name.match(granuleIdRegex) is not null
Matches(granuleIdRegex, name) == name.ext \in granuleIdRegex.exts

\* match[1] of a successful match
Capture(granuleIdRegex, name) ==
    IF granuleIdRegex.group = "optional" /\ name.stem = ""
    THEN JsUndefined
    ELSE JsString(name.stem)

granuleIdOfFile(granuleIdRegex, file) ==
    IF Matches(granuleIdRegex, file.name)
    THEN Capture(granuleIdRegex, file.name)
    ELSE JsNull

RECURSIVE groupBy(_, _, _)
\* lodash groupBy(files, granuleIdOfFile(granuleIdRegex)), folded onto `acc`
groupBy(acc, files, granuleIdRegex) ==
    IF files = <<>> THEN acc
    ELSE LET key == ToPropertyKey(granuleIdOfFile(granuleIdRegex, Head(files)))
             grown == IF ObjHas(acc, key)
                      THEN ObjSet(acc, key, Append(ObjGet(acc, key), Head(files)))
                      ELSE ObjSet(acc, key, <<Head(files)>>)
         IN  groupBy(grown, Tail(files), granuleIdRegex)

\* faulty variant: the null key is not deleted
groupFilesByGranuleId_KeepsNull(granuleIdRegex, files) ==
    groupBy(<<>>, files, granuleIdRegex)

groupFilesByGranuleId(granuleIdRegex, files) ==
    ObjDelete(groupBy(<<>>, files, granuleIdRegex), "null")

(***************************************************************************)
(* Enrichment                                                              *)
(***************************************************************************)
JsBoolean(b) == [t |-> "boolean", v |-> IF b THEN "true" ELSE "false"]

\* lodash isBoolean
isBoolean(val) == val.t = "boolean"

\* a || b for two values that are strings or undefined
JsOr(a, b) == IF a.t = "string" /\ Truthy(a.v) THEN a ELSE b

\* collection file configs; regex \.(ext)$ is modelled by the set of
\* extensions it accepts
RuleDat ==
    [regex |-> [exts |-> {"dat"}, group |-> "always"], bucket |-> "protected",
     url_path |-> JsUndefined, type |-> JsString("data")]
RuleQa ==
    [regex |-> [exts |-> {"qa"}, group |-> "always"], bucket |-> "private",
     url_path |-> JsString("qa/path"), type |-> JsUndefined]
RuleQaNoBucket ==
    [regex |-> [exts |-> {"qa"}, group |-> "always"], bucket |-> "absent",
     url_path |-> JsString("qa/path"), type |-> JsUndefined]

\* a catch-all config, regex \.(dat|qa)$, that overlaps the ones above
RuleAll ==
    [regex |-> [exts |-> {"dat", "qa"}, group |-> "always"], bucket |-> "private",
     url_path |-> JsString("all/path"), type |-> JsString("any")]
\* a config whose url_path and type are set to the empty string
RuleDatBare ==
    [regex |-> [exts |-> {"dat"}, group |-> "always"], bucket |-> "protected",
     url_path |-> JsString(""), type |-> JsString("")]

\* config.buckets: bucket key -> bucket name
Buckets == [protected |-> "protected-bucket", private |-> "private-bucket"]

\* faulty variant: the last matching config wins
getCollectionFileConfig_LastMatch(collectionFileConfigs, file) ==
    LET matching == {i \in DOMAIN collectionFileConfigs :
                        Matches(collectionFileConfigs[i].regex, file.name)}
    IN  IF matching = {} THEN JsUndefined
        ELSE collectionFileConfigs[CHOOSE i \in matching :
                                        \A j \in matching : j <= i]

RECURSIVE getCollectionFileConfig(_, _)
\* collectionFileConfigs.find(...): the first matching config or undefined
getCollectionFileConfig(collectionFileConfigs, file) ==
    IF collectionFileConfigs = <<>> THEN JsUndefined
    ELSE IF Matches(Head(collectionFileConfigs).regex, file.name)
         THEN Head(collectionFileConfigs)
         ELSE getCollectionFileConfig(Tail(collectionFileConfigs), file)

fileHasCollectionFileConfig(collectionFileConfigs, file) ==
    getCollectionFileConfig(collectionFileConfigs, file) /= JsUndefined

\* faulty variant: either flag set to true is enough
returnAllFiles_AnyTrue(config) ==
    \/ config.ignoreFilesConfigForDiscovery = JsBoolean(TRUE)
    \/ config.collection.ignoreFilesConfigForDiscovery = JsBoolean(TRUE)

returnAllFiles(config) ==
    IF isBoolean(config.ignoreFilesConfigForDiscovery)
    THEN config.ignoreFilesConfigForDiscovery.v = "true"
    ELSE IF isBoolean(config.collection.ignoreFilesConfigForDiscovery)
         THEN config.collection.ignoreFilesConfigForDiscovery.v = "true"
         ELSE FALSE

\* buckets[fileConfig.bucket] is undefined, so reading .name throws TypeError
BucketLookupThrows(config, file) ==
    LET fileConfig == getCollectionFileConfig(config.collection.files, file)
    IN  /\ fileConfig /= JsUndefined
        /\ fileConfig.bucket \notin DOMAIN config.buckets

updateFileFromCollectionFileConfig(config, file) ==
    LET fileConfig == getCollectionFileConfig(config.collection.files, file)
    IN  IF fileConfig = JsUndefined THEN file
        ELSE [name |-> file.name,
              bucket |-> config.buckets[fileConfig.bucket],
              url_path |-> JsOr(fileConfig.url_path,
                                JsOr(config.collection.url_path, JsString(""))).v,
              type |-> JsOr(fileConfig.type, JsString("")).v]

\* faulty variant: files without a config are kept
MatchingFiles_KeepsAll(config, files) == files

\* the files buildGranule keeps when the file configs are applied
MatchingFiles(config, files) ==
    FilterSeq(files, {f \in Range(files) :
                        fileHasCollectionFileConfig(config.collection.files, f)})

\* buildGranule throws (from the map over the matching files)
BuildGranuleThrows(config, files) ==
    /\ ~returnAllFiles(config)
    /\ \E f \in Range(MatchingFiles(config, files)) : BucketLookupThrows(config, f)

\* faulty variant: files without a config are dropped even when all files
\* are to be returned
buildGranule_DropsUnmatched(config, files, granuleId) ==
    LET kept == MatchingFiles(config, files)
        filesToReturn ==
            IF returnAllFiles(config) THEN kept
            ELSE [i \in DOMAIN kept |->
                    updateFileFromCollectionFileConfig(config, kept[i])]
    IN  [granuleId |-> granuleId,
         dataType |-> config.collection.dataType,
         version |-> config.collection.version,
         files |-> filesToReturn]

buildGranule(config, files, granuleId) ==
    LET kept == MatchingFiles(config, files)
        filesToReturn ==
            IF returnAllFiles(config) THEN files
            ELSE [i \in DOMAIN kept |->
                    updateFileFromCollectionFileConfig(config, kept[i])]
    IN  [granuleId |-> granuleId,
         dataType |-> config.collection.dataType,
         version |-> config.collection.version,
         files |-> filesToReturn]

\* lodash map(filesByGranuleId, buildGranule(config))
MapBuildGranule(config, filesByGranuleId) ==
    [i \in DOMAIN filesByGranuleId |->
        buildGranule(config, filesByGranuleId[i].value, filesByGranuleId[i].key)]

MapBuildGranuleThrows(config, filesByGranuleId) ==
    \E i \in DOMAIN filesByGranuleId :
        BuildGranuleThrows(config, filesByGranuleId[i].value)

(***************************************************************************)
(* Errors and catalog responses                                            *)
(***************************************************************************)
MkError(name, message, statusCode, statusMessage, url) ==
    [name |-> name, message |-> message, statusCode |-> statusCode,
     statusMessage |-> statusMessage, url |-> url]

NoError == MkError("", <<>>, 0, "", <<>>)

\* JSON.stringify of a string value
JSONStringify(val) == <<"\"", val, "\"">>

DuplicateError(granuleId) ==
    MkError("Error",
            <<"Duplicate granule found for ", granuleId,
              " with duplicate configuration set to error">>, 0, "", <<>>)

InvalidConfigError(duplicateHandling) ==
    MkError("Error",
            <<"Invalid duplicate handling configuration encountered: ">>
                \o JSONStringify(duplicateHandling), 0, "", <<>>)

\* what the collaborators throw
ListError == MkError("ProviderError", <<"list failed">>, 0, "", <<>>)
SecretError(which) == MkError("SecretsManagerError", <<which>>, 0, "", <<>>)
TokenError == MkError("AuthTokenError", <<"getAuthToken failed">>, 0, "", <<>>)
BucketTypeError ==
    MkError("TypeError", <<"Cannot read property 'name' of undefined">>, 0, "", <<>>)

\* answers of GET <baseUrl>/granules/<granuleId>; statusCode 0 stands for a
\* request that got no response
Response(ok, statusCode, statusMessage) ==
    [ok |-> ok, statusCode |-> statusCode, statusMessage |-> statusMessage]

RespExists == Response(TRUE, 200, "OK")
RespNotFound == Response(FALSE, 404, "Not Found")
RespBare404 == Response(FALSE, 404, "")
RespServerError == Response(FALSE, 500, "Internal Server Error")
RespNoResponse == Response(FALSE, 0, "")

Responses == {RespExists, RespNotFound, RespBare404, RespServerError, RespNoResponse}

\* the error got.get rejects with for a response that is not a success
GotError(granuleId, response) ==
    MkError(IF response.statusCode = 0 THEN "RequestError" ELSE "HTTPError",
            <<"GET failed">>, response.statusCode, response.statusMessage,
            <<"/granules/", granuleId>>)

Tokens == {"tokenA", "tokenB"}

(***************************************************************************)
(* Duplicate resolution                                                    *)
(***************************************************************************)
Settled(state, value, error) == [state |-> state, value |-> value, error |-> error]

\* faulty variant: an existing granule never raises, whatever the policy
checkDuplicate_NoConflict(granuleId, dupeConfig, response) ==
    IF ~response.ok
    THEN IF response.statusCode = 404 /\ response.statusMessage = "Not Found"
         THEN Settled("fulfilled", granuleId, NoError)
         ELSE Settled("rejected", "", GotError(granuleId, response))
    ELSE Settled("fulfilled", "", NoError)

\* faulty variant: every failed request is taken for "not found"
checkDuplicate_SwallowsErrors(granuleId, dupeConfig, response) ==
    IF ~response.ok
    THEN Settled("fulfilled", granuleId, NoError)
    ELSE IF dupeConfig.duplicateHandling = "error"
         THEN Settled("rejected", "", DuplicateError(granuleId))
         ELSE Settled("fulfilled", "", NoError)

\* the promise checkDuplicate returns once got.get has answered `response`
checkDuplicate(granuleId, dupeConfig, response) ==
    IF ~response.ok
    THEN IF response.statusCode = 404 /\ response.statusMessage = "Not Found"
         THEN Settled("fulfilled", granuleId, NoError)
         ELSE Settled("rejected", "", GotError(granuleId, response))
    ELSE IF dupeConfig.duplicateHandling = "error"
         THEN Settled("rejected", "", DuplicateError(granuleId))
         ELSE Settled("fulfilled", "", NoError)

RECURSIVE pick(_, _, _)
\* lodash pick(object, paths), folded onto `acc`
pick(acc, object, paths) ==
    IF paths = <<>> THEN acc
    ELSE IF ObjHas(object, Head(paths))
         THEN pick(ObjSet(acc, Head(paths), ObjGet(object, Head(paths))),
                   object, Tail(paths))
         ELSE pick(acc, object, Tail(paths))

\* faulty variant: replace and version are checked against the catalog too
handleDuplicates_ChecksAll(groups, handling) ==
    IF handling \in {"skip", "error", "replace", "version"}
    THEN Settled("pending", <<>>, NoError)
    ELSE Settled("rejected", <<>>, InvalidConfigError(handling))

\* faulty variant: an unknown value is treated like replace
handleDuplicates_Lenient(groups, handling) ==
    IF handling \in {"skip", "error"} THEN Settled("pending", <<>>, NoError)
    ELSE Settled("fulfilled", groups, NoError)

\* handleDuplicates up to its first await: the promise it returns is pending
\* while filterDuplicates runs, and settled at once otherwise.  The parameter
\* default 'error' applies to an undefined argument only; the values modelled
\* are defined strings.
handleDuplicates(groups, handling) ==
    IF handling \in {"skip", "error"} THEN Settled("pending", <<>>, NoError)
    ELSE IF handling \in {"replace", "version"}
         THEN Settled("fulfilled", groups, NoError)
         ELSE Settled("rejected", <<>>, InvalidConfigError(handling))

\* filteredKeys.filter(Boolean)
FilterBoolean(filteredKeys) ==
    FilterSeq(filteredKeys, {k \in Range(filteredKeys) : Truthy(k)})

(***************************************************************************)
(* The task: state                                                         *)
(***************************************************************************)
VARIABLES
    config,            \* event.config
    duplicateHandling, \* the value duplicateHandlingType({ config }) returns
    pc,                \* the await discoverGranules is suspended at
    discoveredFiles,   \* what listFiles resolved with
    filesByGranuleId,  \* discoverGranules' variable of that name
    granuleIds,        \* the argument of filterDuplicates
    catalog,           \* granuleId -> the answer its lookup gets
    secretFetches,     \* the getSecretString calls made so far
    tokenFetches,      \* the number of getAuthToken calls made so far
    authToken,         \* dupeConfig.token
    lookups,           \* keysPromises, each with the request it stands for
    keysAll,           \* Promise.all(keysPromises)
    filtered,          \* the promise filterDuplicates returned
    handled,           \* the promise handleDuplicates returned
    outcome,           \* the promise discoverGranules returned
    failures           \* the collaborator calls that have failed so far

\* the state of the provider migration (data-migration1/src/providers.ts)
VARIABLES
    mpc,               \* the await migrateProviders is suspended at
    run,               \* which invocation of migrateProviders this is
    sourceRecords,     \* the items of the DynamoDB providers table, in scan order
    searchQueue,       \* the items the search queue still holds
    providers,         \* the rows of the relational providers table
    migrationSummary,  \* migrateProviders' variable of that name
    visited,           \* what happened to each record this invocation handled
    firstRun           \* the ids of the records the first invocation migrated

taskVars == <<config, duplicateHandling, pc, discoveredFiles, filesByGranuleId,
              granuleIds, catalog, secretFetches, tokenFetches, authToken,
              lookups, keysAll, filtered, handled, outcome, failures>>

migrationVars == <<mpc, run, sourceRecords, searchQueue, providers,
                   migrationSummary, visited, firstRun>>

vars == <<taskVars, migrationVars>>

\* migrateProviders has not been invoked
MigrationIdle ==
    /\ mpc = "idle"
    /\ run = "none"
    /\ sourceRecords = <<>>
    /\ searchQueue = <<>>
    /\ providers = {}
    /\ migrationSummary = [dynamoRecords |-> 0, success |-> 0, failed |-> 0,
                           skipped |-> 0]
    /\ visited = <<>>
    /\ firstRun = {}

\* the values duplicateHandlingType may hand to handleDuplicates
DuplicateHandlingValues ==
    {"skip", "error", "replace", "version", "bogus", "SKIP"}

IgnoreFlagValues == {JsUndefined, JsBoolean(TRUE)}

CollectionFilesValues == {<<RuleDat, RuleQa>>, <<RuleDat, RuleQaNoBucket>>}

Configs ==
    {[granuleIdExtraction |-> p,
      ignoreFilesConfigForDiscovery |-> flag,
      buckets |-> Buckets,
      collection |-> [ignoreFilesConfigForDiscovery |-> JsUndefined,
                      files |-> rules,
                      url_path |-> JsUndefined,
                      dataType |-> "MOD09GQ",
                      version |-> "006"]] :
        p \in Patterns, flag \in IgnoreFlagValues, rules \in CollectionFilesValues}

\* the listings the provider may return: distinct descriptors, at most MaxFiles
Listings ==
    UNION {{s \in [1..n -> Files] : IsInjective(s)} : n \in 0..MaxFiles}

\* a promise that is not settled yet
Pending == Settled("pending", <<>>, NoError)

Init ==
    /\ config \in Configs
    /\ duplicateHandling \in DuplicateHandlingValues
    /\ pc = "listFiles"
    /\ discoveredFiles = <<>>
    /\ filesByGranuleId = <<>>
    /\ granuleIds = <<>>
    /\ catalog = <<>>
    /\ secretFetches = <<>>
    /\ tokenFetches = 0
    /\ authToken = ""
    /\ lookups = <<>>
    /\ keysAll = Pending
    /\ filtered = Pending
    /\ handled = Pending
    /\ outcome = Pending
    /\ failures = {}
    /\ MigrationIdle

(***************************************************************************)
(* The task: steps, one per resumption of an await                         *)
(***************************************************************************)
\* no promise reaction is queued: the event loop may deliver an I/O event
MicrotasksDrained ==
    \/ pc = "done"
    \/ pc = "awaitAll" /\ keysAll.state = "pending"

\* listFiles rejects; discoverGranules rejects with the same error
ListFilesRejects ==
    /\ pc = "listFiles"
    /\ outcome' = Settled("rejected", <<>>, ListError)
    /\ failures' = failures \cup {"listFiles"}
    /\ pc' = "done"
    /\ UNCHANGED <<config, duplicateHandling, discoveredFiles, filesByGranuleId,
                   granuleIds, catalog, secretFetches, tokenFetches, authToken,
                   lookups, keysAll, filtered, handled>>
    /\ UNCHANGED migrationVars

\* listFiles resolves; discoverGranules classifies the files and calls
\* handleDuplicates, which runs up to its first await
ListFilesResolves(files) ==
    /\ pc = "listFiles"
    /\ discoveredFiles' = files
    /\ filesByGranuleId' = groupFilesByGranuleId(config.granuleIdExtraction, files)
    /\ handled' = handleDuplicates(filesByGranuleId', duplicateHandling)
    /\ IF handled'.state = "pending"
       THEN \* filterDuplicates starts and awaits the first getSecretString
            /\ granuleIds' = ObjKeys(filesByGranuleId')
            /\ secretFetches' = <<"urs_password_secret_name">>
            /\ pc' = "awaitPassword"
       ELSE /\ pc' = "awaitHandleDuplicates"
            /\ UNCHANGED <<granuleIds, secretFetches>>
    /\ UNCHANGED <<config, duplicateHandling, catalog, tokenFetches, authToken,
                   lookups, keysAll, filtered, outcome, failures>>
    /\ UNCHANGED migrationVars

\* getSecretString rejects: filterDuplicates rejects before any lookup is
\* issued, and so does handleDuplicates
GetSecretStringRejects ==
    /\ pc \in {"awaitPassword", "awaitPassphrase"}
    /\ filtered' = Settled("rejected", <<>>,
                            SecretError(secretFetches[Len(secretFetches)]))
    /\ handled' = filtered'
    /\ pc' = "awaitHandleDuplicates"
    /\ failures' = failures \cup {"getSecretString"}
    /\ UNCHANGED <<config, duplicateHandling, discoveredFiles, filesByGranuleId,
                   granuleIds, catalog, secretFetches, tokenFetches, authToken,
                   lookups, keysAll, outcome>>
    /\ UNCHANGED migrationVars

GetSecretStringResolves ==
    /\ pc \in {"awaitPassword", "awaitPassphrase"}
    /\ IF pc = "awaitPassword"
       THEN /\ secretFetches' = Append(secretFetches, "passphraseSecretName")
            /\ pc' = "awaitPassphrase"
            /\ UNCHANGED tokenFetches
       ELSE \* tokenConfig is complete: getAuthToken is called
            /\ tokenFetches' = tokenFetches + 1
            /\ pc' = "awaitAuthToken"
            /\ UNCHANGED secretFetches
    /\ UNCHANGED <<config, duplicateHandling, discoveredFiles, filesByGranuleId,
                   granuleIds, catalog, authToken, lookups, keysAll, filtered,
                   handled, outcome, failures>>
    /\ UNCHANGED migrationVars

\* getAuthToken rejects: as above
GetAuthTokenRejects ==
    /\ pc = "awaitAuthToken"
    /\ filtered' = Settled("rejected", <<>>, TokenError)
    /\ handled' = filtered'
    /\ pc' = "awaitHandleDuplicates"
    /\ failures' = failures \cup {"getAuthToken"}
    /\ UNCHANGED <<config, duplicateHandling, discoveredFiles, filesByGranuleId,
                   granuleIds, catalog, secretFetches, tokenFetches, authToken,
                   lookups, keysAll, outcome>>
    /\ UNCHANGED migrationVars

\* faulty variant: the request is sent without the acquired token
IssueLookup_NoToken(granuleId, dupeConfig) ==
    [granuleId |-> granuleId, token |-> "",
     state |-> "pending", value |-> "", error |-> NoError]

\* the request checkDuplicate sends for granuleIds[i]
IssueLookup(granuleId, dupeConfig) ==
    [granuleId |-> granuleId, token |-> dupeConfig.token,
     state |-> "pending", value |-> "", error |-> NoError]

\* getAuthToken resolves; filterDuplicates issues one lookup per granule id
\* and awaits Promise.all.  `answers` is what the catalog holds for the ids.
GetAuthTokenResolves(token, answers) ==
    /\ pc = "awaitAuthToken"
    /\ authToken' = token
    /\ catalog' = answers
    /\ LET dupeConfig == [duplicateHandling |-> duplicateHandling, token |-> token]
       IN  lookups' = [i \in DOMAIN granuleIds |-> IssueLookup(granuleIds[i], dupeConfig)]
    /\ keysAll' = IF granuleIds = <<>>
                  THEN Settled("fulfilled", <<>>, NoError)
                  ELSE Pending
    /\ pc' = "awaitAll"
    /\ UNCHANGED <<config, duplicateHandling, discoveredFiles, filesByGranuleId,
                   granuleIds, secretFetches, tokenFetches, filtered, handled,
                   outcome, failures>>
    /\ UNCHANGED migrationVars

\* faulty variant: waits for every promise and resolves with the values of
\* all of them, rejected or not (the behaviour of a join that drops errors)
PromiseAll_DropsRejections(all, promises, settled) ==
    IF all.state /= "pending" THEN all
    ELSE IF \A j \in DOMAIN promises : promises[j].state /= "pending"
         THEN Settled("fulfilled",
                      [j \in DOMAIN promises |-> promises[j].value], NoError)
         ELSE all

\* faulty variant: waits for every promise and rejects with the rejection
\* that comes first in input order
PromiseAll_InputOrder(all, promises, settled) ==
    IF all.state /= "pending" THEN all
    ELSE IF \E j \in DOMAIN promises : promises[j].state = "pending" THEN all
    ELSE IF \E j \in DOMAIN promises : promises[j].state = "rejected"
         THEN Settled("rejected", <<>>,
                      promises[CHOOSE j \in DOMAIN promises :
                                /\ promises[j].state = "rejected"
                                /\ \A k \in 1..(j - 1) :
                                        promises[k].state /= "rejected"].error)
         ELSE Settled("fulfilled",
                      [j \in DOMAIN promises |-> promises[j].value], NoError)

\* faulty variant: fulfils as soon as one promise fulfils, with the values
\* known by then
PromiseAll_FirstFulfilled(all, promises, settled) ==
    IF all.state /= "pending" THEN all
    ELSE IF settled.state = "rejected"
         THEN Settled("rejected", <<>>, settled.error)
         ELSE Settled("fulfilled",
                      [j \in DOMAIN promises |-> promises[j].value], NoError)

\* Promise.all after one more of its promises settled
PromiseAll(all, promises, settled) ==
    IF all.state /= "pending" THEN all
    ELSE IF settled.state = "rejected"
         THEN Settled("rejected", <<>>, settled.error)
         ELSE IF \A j \in DOMAIN promises : promises[j].state = "fulfilled"
              THEN Settled("fulfilled",
                           [j \in DOMAIN promises |-> promises[j].value], NoError)
              ELSE all

\* the catalog answers lookup i; checkDuplicate settles its promise
LookupCompletes(i) ==
    /\ MicrotasksDrained
    /\ i \in DOMAIN lookups
    /\ lookups[i].state = "pending"
    /\ LET dupeConfig == [duplicateHandling |-> duplicateHandling,
                          token |-> lookups[i].token]
           result == checkDuplicate(lookups[i].granuleId, dupeConfig,
                                    catalog[lookups[i].granuleId])
       IN  /\ lookups' = [lookups EXCEPT ![i] =
                            [@ EXCEPT !.state = result.state,
                                      !.value = result.value,
                                      !.error = result.error]]
           /\ keysAll' = PromiseAll(keysAll, lookups', result)
           /\ failures' = IF result.state = "rejected"
                          THEN failures \cup {"lookup"}
                          ELSE failures
    /\ UNCHANGED <<config, duplicateHandling, pc, discoveredFiles,
                   filesByGranuleId, granuleIds, catalog, secretFetches,
                   tokenFetches, authToken, filtered, handled, outcome>>
    /\ UNCHANGED migrationVars

\* Promise.all settled; filterDuplicates returns or rejects, and
\* handleDuplicates picks the surviving groups
FilterDuplicatesResumes ==
    /\ pc = "awaitAll"
    /\ keysAll.state /= "pending"
    /\ IF keysAll.state = "fulfilled"
       THEN /\ filtered' = Settled("fulfilled", FilterBoolean(keysAll.value), NoError)
            /\ handled' = Settled("fulfilled",
                                  pick(<<>>, filesByGranuleId, filtered'.value),
                                  NoError)
       ELSE /\ filtered' = Settled("rejected", <<>>, keysAll.error)
            /\ handled' = Settled("rejected", <<>>, keysAll.error)
    /\ pc' = "awaitHandleDuplicates"
    /\ UNCHANGED <<config, duplicateHandling, discoveredFiles, filesByGranuleId,
                   granuleIds, catalog, secretFetches, tokenFetches, authToken,
                   lookups, keysAll, outcome, failures>>
    /\ UNCHANGED migrationVars

\* handleDuplicates settled; discoverGranules builds the granules and returns
DiscoverGranulesResumes ==
    /\ pc = "awaitHandleDuplicates"
    /\ IF handled.state = "rejected"
       THEN /\ outcome' = Settled("rejected", <<>>, handled.error)
            /\ UNCHANGED filesByGranuleId
       ELSE /\ filesByGranuleId' = handled.value
            /\ outcome' =
                IF MapBuildGranuleThrows(config, handled.value)
                THEN Settled("rejected", <<>>, BucketTypeError)
                ELSE Settled("fulfilled",
                             MapBuildGranule(config, handled.value), NoError)
    /\ pc' = "done"
    /\ UNCHANGED <<config, duplicateHandling, discoveredFiles, granuleIds,
                   catalog, secretFetches, tokenFetches, authToken, lookups,
                   keysAll, filtered, handled, failures>>
    /\ UNCHANGED migrationVars

Next ==
    \/ ListFilesRejects
    \/ \E files \in Listings : ListFilesResolves(files)
    \/ GetSecretStringRejects
    \/ GetSecretStringResolves
    \/ GetAuthTokenRejects
    \/ \E token \in Tokens, answers \in [Range(granuleIds) -> Responses] :
            GetAuthTokenResolves(token, answers)
    \/ \E i \in 1..MaxFiles : LookupCompletes(i)
    \/ FilterDuplicatesResumes
    \/ DiscoverGranulesResumes

Spec == Init /\ [][Next]_vars

(***************************************************************************)
(* Granule building on its own: discoverGranules under every shape of the  *)
(* file configs, the two ignoreFilesConfigForDiscovery flags and the       *)
(* collection's url_path, with a policy that keeps every group             *)
(***************************************************************************)
\* what a flag may hold: unset, a boolean, or a value that is no boolean
FlagValues ==
    {JsUndefined, JsBoolean(TRUE), JsBoolean(FALSE), JsString("true")}

UrlPathValues == {JsUndefined, JsString("coll/path")}

EnrichCollectionFilesValues ==
    { <<RuleDat, RuleQa>>, <<RuleDat, RuleQaNoBucket>>, <<RuleQa>>,
      <<RuleQaNoBucket>>, <<RuleDat, RuleAll>>, <<RuleAll, RuleDat>>,
      <<RuleDatBare>>, <<>> }

EnrichConfigs ==
    {[granuleIdExtraction |-> p,
      ignoreFilesConfigForDiscovery |-> flag,
      buckets |-> Buckets,
      collection |-> [ignoreFilesConfigForDiscovery |-> collectionFlag,
                      files |-> rules,
                      url_path |-> urlPath,
                      dataType |-> "MOD09GQ",
                      version |-> "006"]] :
        p \in Patterns, flag \in FlagValues, collectionFlag \in FlagValues,
        rules \in EnrichCollectionFilesValues, urlPath \in UrlPathValues}

EnrichInit ==
    /\ config \in EnrichConfigs
    /\ duplicateHandling = "replace"
    /\ pc = "listFiles"
    /\ discoveredFiles = <<>>
    /\ filesByGranuleId = <<>>
    /\ granuleIds = <<>>
    /\ catalog = <<>>
    /\ secretFetches = <<>>
    /\ tokenFetches = 0
    /\ authToken = ""
    /\ lookups = <<>>
    /\ keysAll = Pending
    /\ filtered = Pending
    /\ handled = Pending
    /\ outcome = Pending
    /\ failures = {}
    /\ MigrationIdle

EnrichNext ==
    \/ \E files \in Listings : ListFilesResolves(files)
    \/ DiscoverGranulesResumes

EnrichSpec == EnrichInit /\ [][EnrichNext]_vars

(***************************************************************************)
(* discoverGranules over listings with more identifiers, among them two    *)
(* that are array indexes, for one config                                  *)
(***************************************************************************)
OrderFiles ==
    Files \cup {[name |-> Name("10", "dat")], [name |-> Name("B2", "dat")]}

OrderListings ==
    UNION {{s \in [1..n -> OrderFiles] : IsInjective(s)} : n \in 0..MaxFiles}

OrderConfig ==
    [granuleIdExtraction |-> PatternGreedy,
     ignoreFilesConfigForDiscovery |-> JsUndefined,
     buckets |-> Buckets,
     collection |-> [ignoreFilesConfigForDiscovery |-> JsUndefined,
                     files |-> <<RuleDat, RuleQa>>,
                     url_path |-> JsUndefined,
                     dataType |-> "MOD09GQ",
                     version |-> "006"]]

OrderInit ==
    /\ config = OrderConfig
    /\ duplicateHandling \in {"skip", "error", "replace"}
    /\ pc = "listFiles"
    /\ discoveredFiles = <<>>
    /\ filesByGranuleId = <<>>
    /\ granuleIds = <<>>
    /\ catalog = <<>>
    /\ secretFetches = <<>>
    /\ tokenFetches = 0
    /\ authToken = ""
    /\ lookups = <<>>
    /\ keysAll = Pending
    /\ filtered = Pending
    /\ handled = Pending
    /\ outcome = Pending
    /\ failures = {}
    /\ MigrationIdle

OrderNext ==
    \/ ListFilesRejects
    \/ \E files \in OrderListings : ListFilesResolves(files)
    \/ GetSecretStringRejects
    \/ GetSecretStringResolves
    \/ GetAuthTokenRejects
    \/ \E token \in Tokens, answers \in [Range(granuleIds) -> Responses] :
            GetAuthTokenResolves(token, answers)
    \/ \E i \in 1..MaxFiles : LookupCompletes(i)
    \/ FilterDuplicatesResumes
    \/ DiscoverGranulesResumes

OrderSpec == OrderInit /\ [][OrderNext]_vars

(***************************************************************************)
(* Provider migration (lambdas/data-migration1/src/providers.ts)           *)
(*                                                                         *)
(* A credential is a record [enc, text]: enc is "none" for a value that is *)
(* not set, "plain" for a plaintext, "legacy" for a value encrypted by the *)
(* API and "kms" for the result of KMS.encrypt with provider_kms_key_id.   *)
(* Whether an item satisfies schemas.provider is its field `valid`.        *)
(***************************************************************************)
NoCredential == [enc |-> "none", text |-> ""]
Plaintext(text) == [enc |-> "plain", text |-> text]
LegacyCiphertext(text) == [enc |-> "legacy", text |-> text]
KmsCiphertext(text) == [enc |-> "kms", text |-> text]

ProviderIds == {"p1", "p2", "p3"}

DynamoRecord(id, valid, username, password, encrypted) ==
    [id |-> id, valid |-> valid, username |-> username, password |-> password,
     encrypted |-> encrypted]

\* the items the DynamoDB table may hold
DynamoRecords ==
    UNION {{ DynamoRecord(id, FALSE, NoCredential, NoCredential, FALSE),
             DynamoRecord(id, TRUE, NoCredential, NoCredential, FALSE),
             DynamoRecord(id, TRUE, Plaintext("user"), Plaintext("pass"), FALSE),
             DynamoRecord(id, TRUE, LegacyCiphertext("user"), NoCredential, TRUE) } :
            id \in ProviderIds}

\* what a scan of the table returns: items with distinct ids (the hash key)
Scans ==
    UNION {{s \in [1..n -> DynamoRecords] :
                \A i, j \in 1..n : s[i].id = s[j].id => i = j} :
            n \in 0..MaxRecords}

RDSProviderRecord(name, username, password) ==
    [name |-> name, username |-> username, password |-> password]

\* the relational table before the first invocation
ExistingTables ==
    {{}, {RDSProviderRecord("p1", NoCredential, NoCredential)}}

\* how the calls migrateProviderRecord awaits turn out
CollaboratorOutcomes ==
    [select : {"ok", "fail"}, kmsDecrypt : {"ok", "fail"},
     keyPairDecrypt : {"ok", "fail"},
     encryptFailsAt : {"never", "first", "second"}, insert : {"ok", "fail"}]

\* decrypt: KMS.decryptBase64String, else S3KeyPairProvider.decrypt
decrypt(value, io) ==
    IF io.kmsDecrypt = "ok" \/ io.keyPairDecrypt = "ok"
    THEN [ok |-> TRUE, text |-> value.text]
    ELSE [ok |-> FALSE, text |-> ""]

\* what a call of migrateProviderRecord leaves behind: the name of the
\* error it threw ("" when it returned), the table, and the number of
\* KMS.encrypt calls it made
Migrated(error, table, encryptCalls) ==
    [error |-> error, providers |-> table, encryptCalls |-> encryptCalls]

\* faulty variant: the credentials are encrypted and the row is written
\* before the table is searched for the name
migrateProviderRecord_InsertsFirst(dynamoRecord, table, io) ==
    IF ~dynamoRecord.valid THEN Migrated("SchemaValidationError", table, 0)
    ELSE LET row == RDSProviderRecord(dynamoRecord.id,
                        IF dynamoRecord.username.enc /= "none"
                        THEN KmsCiphertext(dynamoRecord.username.text)
                        ELSE dynamoRecord.username,
                        dynamoRecord.password)
             calls == IF dynamoRecord.username.enc /= "none" THEN 1 ELSE 0
         IN  IF \E existingRecord \in table : existingRecord.name = dynamoRecord.id
             THEN Migrated("RecordAlreadyMigrated", table \cup {row}, calls)
             ELSE Migrated("", table \cup {row}, calls)

migrateProviderRecord(dynamoRecord, table, io) ==
    LET hasUsername == dynamoRecord.username.enc /= "none"
        hasPassword == dynamoRecord.password.enc /= "none"
        usernamePlain ==
            IF dynamoRecord.encrypted THEN decrypt(dynamoRecord.username, io)
            ELSE [ok |-> TRUE, text |-> dynamoRecord.username.text]
        passwordPlain ==
            IF dynamoRecord.encrypted THEN decrypt(dynamoRecord.password, io)
            ELSE [ok |-> TRUE, text |-> dynamoRecord.password.text]
        usernameCalls == IF hasUsername THEN 1 ELSE 0
        passwordFailsAt == IF hasUsername THEN "second" ELSE "first"
        username == IF hasUsername THEN KmsCiphertext(usernamePlain.text)
                    ELSE dynamoRecord.username
        password == IF hasPassword THEN KmsCiphertext(passwordPlain.text)
                    ELSE dynamoRecord.password
        encryptCalls == usernameCalls + (IF hasPassword THEN 1 ELSE 0)
        updatedRecord == RDSProviderRecord(dynamoRecord.id, username, password)
    IN  IF ~dynamoRecord.valid
        THEN Migrated("SchemaValidationError", table, 0)
        ELSE IF io.select = "fail" THEN Migrated("KnexError", table, 0)
        ELSE IF \E existingRecord \in table : existingRecord.name = dynamoRecord.id
        THEN Migrated("RecordAlreadyMigrated", table, 0)
        ELSE IF hasUsername /\ ~usernamePlain.ok
        THEN Migrated("DecryptError", table, 0)
        ELSE IF hasUsername /\ io.encryptFailsAt = "first"
        THEN Migrated("KMSError", table, 1)
        ELSE IF hasPassword /\ ~passwordPlain.ok
        THEN Migrated("DecryptError", table, usernameCalls)
        ELSE IF hasPassword /\ io.encryptFailsAt = passwordFailsAt
        THEN Migrated("KMSError", table, encryptCalls)
        ELSE IF io.insert = "fail" THEN Migrated("KnexError", table, encryptCalls)
        ELSE Migrated("", table \cup {updatedRecord}, encryptCalls)

\* faulty variant: a record that could not be migrated is not counted
Tally_DropsFailures(summary, error) ==
    IF error = "" THEN [summary EXCEPT !.success = @ + 1]
    ELSE IF error = "RecordAlreadyMigrated"
         THEN [summary EXCEPT !.skipped = @ + 1]
         ELSE summary

\* the try/catch of the loop body: how the summary counts an outcome
Tally(summary, error) ==
    IF error = "" THEN [summary EXCEPT !.success = @ + 1]
    ELSE IF error = "RecordAlreadyMigrated"
         THEN [summary EXCEPT !.skipped = @ + 1]
         ELSE [summary EXCEPT !.failed = @ + 1]

\* the discover-granules task is not running
TaskIdle ==
    /\ config = OrderConfig
    /\ duplicateHandling = "error"
    /\ pc = "listFiles"
    /\ discoveredFiles = <<>>
    /\ filesByGranuleId = <<>>
    /\ granuleIds = <<>>
    /\ catalog = <<>>
    /\ secretFetches = <<>>
    /\ tokenFetches = 0
    /\ authToken = ""
    /\ lookups = <<>>
    /\ keysAll = Pending
    /\ filtered = Pending
    /\ handled = Pending
    /\ outcome = Pending
    /\ failures = {}

\* migrateProviders has built its search queue and summary and awaits the
\* first peek
MigrateInit ==
    /\ TaskIdle
    /\ mpc = "peek"
    /\ run = "first"
    /\ sourceRecords \in Scans
    /\ searchQueue = sourceRecords
    /\ providers \in ExistingTables
    /\ migrationSummary = [dynamoRecords |-> 0, success |-> 0, failed |-> 0,
                           skipped |-> 0]
    /\ visited = <<>>
    /\ firstRun = {}

\* searchQueue.peek resolves: with no record left migrateProviders returns
\* the summary, otherwise it counts the record and calls migrateProviderRecord
PeekResolves ==
    /\ mpc = "peek"
    /\ IF searchQueue = <<>>
       THEN /\ mpc' = "returned"
            /\ UNCHANGED migrationSummary
       ELSE /\ mpc' = "migrate"
            /\ migrationSummary' =
                    [migrationSummary EXCEPT !.dynamoRecords = @ + 1]
    /\ UNCHANGED <<run, sourceRecords, searchQueue, providers, visited, firstRun>>
    /\ UNCHANGED taskVars

\* searchQueue.peek or searchQueue.shift rejects: both are awaited outside
\* the try block, so migrateProviders rejects
QueueRejects ==
    /\ mpc \in {"peek", "shift"}
    /\ mpc' = "threw"
    /\ UNCHANGED <<run, sourceRecords, searchQueue, providers, migrationSummary,
                   visited, firstRun>>
    /\ UNCHANGED taskVars

\* migrateProviderRecord settles and the try/catch counts the outcome
MigrateProviderRecordSettles(io) ==
    /\ mpc = "migrate"
    /\ LET record == Head(searchQueue)
           result == migrateProviderRecord(record, providers, io)
       IN  /\ providers' = result.providers
           /\ migrationSummary' = Tally(migrationSummary, result.error)
           /\ visited' = Append(visited,
                  [id |-> record.id,
                   existed |-> \E row \in providers : row.name = record.id,
                   error |-> result.error,
                   encryptCalls |-> result.encryptCalls,
                   added |-> result.providers \ providers])
    /\ mpc' = "shift"
    /\ UNCHANGED <<run, sourceRecords, searchQueue, firstRun>>
    /\ UNCHANGED taskVars

\* searchQueue.shift resolves; the next peek is awaited
ShiftResolves ==
    /\ mpc = "shift"
    /\ searchQueue' = Tail(searchQueue)
    /\ mpc' = "peek"
    /\ UNCHANGED <<run, sourceRecords, providers, migrationSummary, visited,
                   firstRun>>
    /\ UNCHANGED taskVars

\* migrateProviders is invoked a second time over the same DynamoDB table
MigrateProvidersAgain ==
    /\ mpc = "returned"
    /\ run = "first"
    /\ run' = "second"
    /\ firstRun' = {visited[i].id : i \in {j \in DOMAIN visited : visited[j].error = ""}}
    /\ searchQueue' = sourceRecords
    /\ migrationSummary' = [dynamoRecords |-> 0, success |-> 0, failed |-> 0,
                            skipped |-> 0]
    /\ visited' = <<>>
    /\ mpc' = "peek"
    /\ UNCHANGED <<sourceRecords, providers>>
    /\ UNCHANGED taskVars

MigrateNext ==
    \/ PeekResolves
    \/ QueueRejects
    \/ \E io \in CollaboratorOutcomes : MigrateProviderRecordSettles(io)
    \/ ShiftResolves
    \/ MigrateProvidersAgain

MigrateSpec == MigrateInit /\ [][MigrateNext]_vars

(***************************************************************************)
(* Properties                                                              *)
(***************************************************************************)
\* filesByGranuleId still holds the result of classification
Classified ==
    pc \in {"awaitPassword", "awaitPassphrase", "awaitAuthToken", "awaitAll",
            "awaitHandleDuplicates"}

\* filterDuplicates has settled and its caller has seen the result
Resolved == pc \in {"awaitHandleDuplicates", "done"}

\* the lookups have been issued (the token was acquired)
LookupsIssued == authToken /= ""

\* the answer is neither a success nor the not-found response
HardFailure(response) ==
    /\ ~response.ok
    /\ ~(response.statusCode = 404 /\ response.statusMessage = "Not Found")

IsDuplicateError(error) ==
    /\ error.name = "Error"
    /\ Len(error.message) = 3
    /\ error.message[1] = "Duplicate granule found for "

IsRequestFailure(error) == error.name \in {"HTTPError", "RequestError"}

RejectedLookups == {i \in DOMAIN lookups : lookups[i].state = "rejected"}

\* Promise.all rejects with the first rejection: while its reaction is still
\* queued, exactly one lookup has rejected, and its error is the one kept
FirstRejectionWins ==
    (pc = "awaitAll" /\ keysAll.state = "rejected") =>
        /\ Cardinality(RejectedLookups) = 1
        /\ \A i \in RejectedLookups : keysAll.error = lookups[i].error

\* C1: under skip, when every lookup answers "exists" or "not found",
\* filterDuplicates returns exactly the input identifiers that are absent from
\* the catalog, each once.
C1_SkipReturnsExactlyAbsent ==
    ( /\ duplicateHandling = "skip"
      /\ LookupsIssued
      /\ Resolved
      /\ \A i \in DOMAIN granuleIds :
            catalog[granuleIds[i]] \in {RespExists, RespNotFound} )
    => /\ filtered.state = "fulfilled"
       /\ IsInjective(filtered.value)
       /\ Range(filtered.value) =
            {id \in Range(granuleIds) : catalog[id] = RespNotFound}

\* C2 as stated: under error, when an input identifier exists in the catalog,
\* filterDuplicates returns no list and fails with a duplicate-conflict error.
C2_ErrorPolicyFailsWithConflict ==
    ( /\ duplicateHandling = "error"
      /\ LookupsIssued
      /\ \E id \in Range(granuleIds) : catalog[id].ok )
    => /\ filtered.state /= "fulfilled"
       /\ Resolved => /\ filtered.state = "rejected"
                      /\ IsDuplicateError(filtered.error)

\* C2 as amended: under error, when an input identifier exists in the
\* catalog, filterDuplicates never returns a list and discoverGranules never
\* returns granules; it fails with the first rejection among the lookups,
\* which is the duplicate conflict of an existing identifier or the failure
\* of a lookup that failed for another reason, and it is a duplicate conflict
\* whenever no lookup fails for another reason.
C2_ErrorPolicyFailsWithFirstRejection ==
    ( /\ duplicateHandling = "error"
      /\ LookupsIssued
      /\ \E id \in Range(granuleIds) : catalog[id].ok )
    => /\ filtered.state /= "fulfilled"
       /\ handled.state /= "fulfilled"
       /\ outcome.state /= "fulfilled"
       /\ Resolved => filtered.state = "rejected"
       /\ FirstRejectionWins
       /\ filtered.state = "rejected" =>
            /\ filtered.error = keysAll.error
            /\ \E i \in RejectedLookups :
                /\ filtered.error = lookups[i].error
                /\ \/ /\ IsDuplicateError(filtered.error)
                      /\ catalog[lookups[i].granuleId].ok
                      /\ filtered.error.message[2] = lookups[i].granuleId
                   \/ /\ IsRequestFailure(filtered.error)
                      /\ HardFailure(catalog[lookups[i].granuleId])
            /\ (\A id \in Range(granuleIds) : ~HardFailure(catalog[id]))
                    => IsDuplicateError(filtered.error)

\* C2 witness: an identifier exists, yet filterDuplicates failed with the
\* request failure of another lookup.
C2_Witness ==
    /\ duplicateHandling = "error"
    /\ filtered.state = "rejected"
    /\ IsRequestFailure(filtered.error)
    /\ \E id \in Range(granuleIds) : catalog[id].ok

\* C3: under replace or version, handleDuplicates returns the classified
\* groups unchanged and makes no secret fetch, no token fetch and no lookup.
C3_ReplaceVersionPassThrough ==
    duplicateHandling \in {"replace", "version"} =>
        /\ secretFetches = <<>>
        /\ tokenFetches = 0
        /\ lookups = <<>>
        /\ filtered.state = "pending"
        /\ pc = "awaitHandleDuplicates" =>
            /\ handled.state = "fulfilled"
            /\ handled.value = filesByGranuleId
        /\ (pc = "done" /\ "listFiles" \notin failures) =>
            /\ handled.state = "fulfilled"
            /\ handled.value = filesByGranuleId

\* C3 witness: two groups were classified and handed back under replace.
C3_Witness ==
    /\ duplicateHandling = "replace"
    /\ pc = "awaitHandleDuplicates"
    /\ handled.state = "fulfilled"
    /\ Len(handled.value) = 2

\* C4 as stated: under skip or error, a lookup that fails with anything other
\* than the not-found response makes filterDuplicates fail with that failure.
C4_FailsWithThatFailure ==
    \A i \in DOMAIN lookups :
        ( /\ duplicateHandling \in {"skip", "error"}
          /\ lookups[i].state = "rejected"
          /\ IsRequestFailure(lookups[i].error) )
        => /\ filtered.state /= "fulfilled"
           /\ Resolved => /\ filtered.state = "rejected"
                          /\ filtered.error = lookups[i].error

\* C4 as amended: under skip or error, an identifier whose lookup is answered
\* with anything other than the not-found response is never counted as "no
\* duplicate"; filterDuplicates returns no list and discoverGranules no
\* granules; filterDuplicates fails with the first rejection among the
\* lookups, which is that lookup's failure when no other lookup rejected
\* before it.
C4_HardFailureAbortsBatch ==
    \A i \in DOMAIN lookups :
        ( /\ duplicateHandling \in {"skip", "error"}
          /\ HardFailure(catalog[lookups[i].granuleId]) )
        => /\ lookups[i].state /= "fulfilled"
           /\ filtered.state /= "fulfilled"
           /\ handled.state /= "fulfilled"
           /\ outcome.state /= "fulfilled"
           /\ Resolved => filtered.state = "rejected"
           /\ FirstRejectionWins
           /\ filtered.state = "rejected" =>
                /\ filtered.error = keysAll.error
                /\ \E j \in RejectedLookups : filtered.error = lookups[j].error
           /\ lookups[i].state = "rejected" =>
                /\ IsRequestFailure(lookups[i].error)
                /\ lookups[i].error.statusCode = catalog[lookups[i].granuleId].statusCode
                /\ keysAll.state = "rejected"
                /\ RejectedLookups = {i} => keysAll.error = lookups[i].error

\* C4 witness: a lookup failed hard after filterDuplicates had already failed
\* with another lookup's error.
C4_Witness ==
    /\ filtered.state = "rejected"
    /\ \E i \in RejectedLookups :
        /\ IsRequestFailure(lookups[i].error)
        /\ filtered.error /= lookups[i].error

\* C5: a lookup answered with the not-found response means "absent": under
\* skip and under error no error is raised for the identifier, and it is in
\* the list filterDuplicates returns.
C5_NotFoundMeansKept ==
    \A i \in DOMAIN lookups :
        ( /\ duplicateHandling \in {"skip", "error"}
          /\ catalog[lookups[i].granuleId] = RespNotFound
          /\ lookups[i].state /= "pending" )
        => /\ lookups[i].state = "fulfilled"
           /\ filtered.state = "fulfilled" =>
                lookups[i].granuleId \in Range(filtered.value)

\* C6: discoverGranules fails atomically: once the listing, a secret fetch,
\* the token fetch or a lookup has failed (a duplicate conflict included),
\* the promise discoverGranules returned is never fulfilled, and when
\* discoverGranules has returned it is rejected and carries no granules.
C6_FailsAtomically ==
    failures /= {} =>
        /\ outcome.state /= "fulfilled"
        /\ pc = "done" => /\ outcome.state = "rejected"
                          /\ outcome.value = <<>>
                          /\ outcome.error /= NoError

\* C6 witness: discoverGranules has failed on a lookup while another lookup
\* is still in flight.
C6_Witness ==
    /\ pc = "done"
    /\ outcome.state = "rejected"
    /\ "lookup" \in failures
    /\ \E i \in DOMAIN lookups : lookups[i].state = "pending"

\* C7: for a duplicate-handling value other than skip, error, replace and
\* version, handleDuplicates fails with the invalid-configuration error, whose
\* message names the value, and makes no secret fetch, no token fetch and no
\* lookup; discoverGranules fails with that error.
C7_InvalidHandlingRejected ==
    duplicateHandling \notin {"skip", "error", "replace", "version"} =>
        /\ secretFetches = <<>>
        /\ tokenFetches = 0
        /\ lookups = <<>>
        /\ (Resolved /\ "listFiles" \notin failures) =>
            /\ handled.state = "rejected"
            /\ handled.error.name = "Error"
            /\ handled.error.message[1] =
                    "Invalid duplicate handling configuration encountered: "
            /\ \E k \in DOMAIN handled.error.message :
                    handled.error.message[k] = duplicateHandling
            /\ pc = "done" => /\ outcome.state = "rejected"
                              /\ outcome.error = handled.error

\* C7 witness: discoverGranules failed on the value "SKIP".
C7_Witness ==
    /\ duplicateHandling = "SKIP"
    /\ pc = "done"
    /\ handled.state = "rejected"
    /\ outcome.state = "rejected"

\* C8: under skip or error the token is fetched at most once, exactly once
\* and successfully before any lookup is issued or a list is returned, every
\* lookup carries that token, and no lookup is issued when a secret fetch or
\* the token fetch fails.
C8_TokenOnceBeforeLookups ==
    /\ tokenFetches <= 1
    /\ IsInjective(secretFetches)
    /\ (duplicateHandling \in {"skip", "error"} /\ pc /= "listFiles"
            /\ "listFiles" \notin failures) => Len(secretFetches) >= 1
    /\ pc = "awaitAuthToken" => tokenFetches = 1
    /\ (lookups /= <<>> \/ pc = "awaitAll" \/ filtered.state = "fulfilled") =>
        /\ tokenFetches = 1
        /\ authToken \in Tokens
        /\ duplicateHandling \in {"skip", "error"}
    /\ \A i \in DOMAIN lookups : lookups[i].token = authToken
    /\ LookupsIssued => Len(lookups) = Len(granuleIds)
    /\ failures \cap {"getSecretString", "getAuthToken"} /= {} =>
        /\ lookups = <<>>
        /\ authToken = ""

\* C8 witness: two lookups were issued with the acquired token and completed.
C8_Witness ==
    /\ Len(lookups) = 2
    /\ authToken = "tokenB"
    /\ \A i \in DOMAIN lookups : lookups[i].state /= "pending"

\* the groups of filesByGranuleId that hold `file`
GroupsHolding(file) ==
    {g \in DOMAIN filesByGranuleId : file \in Range(filesByGranuleId[g].value)}

\* the position of `file` in group g
PositionIn(g, file) ==
    CHOOSE k \in DOMAIN filesByGranuleId[g].value :
        filesByGranuleId[g].value[k] = file

\* C9: after classification every file whose name matches the pattern is in
\* exactly one group, the one keyed by the identifier captured from its name,
\* and the files of a group are in listing order.
C9_ClassificationComplete ==
    Classified =>
        \A i \in DOMAIN discoveredFiles :
            LET file == discoveredFiles[i]
                id == granuleIdOfFile(config.granuleIdExtraction, file)
            IN  id.t = "string" =>
                    /\ Cardinality(GroupsHolding(file)) = 1
                    /\ \A g \in GroupsHolding(file) :
                        /\ filesByGranuleId[g].key = id.v
                        /\ \A j \in DOMAIN discoveredFiles :
                            (i < j /\ discoveredFiles[j] \in Range(filesByGranuleId[g].value))
                            => PositionIn(g, file) < PositionIn(g, discoveredFiles[j])

\* C10: after classification a file whose name does not match the pattern is
\* in no group, and the groups are those the listing without it yields.
C10_ClassificationExclusion ==
    Classified =>
        \A i \in DOMAIN discoveredFiles :
            ~Matches(config.granuleIdExtraction, discoveredFiles[i].name) =>
                /\ GroupsHolding(discoveredFiles[i]) = {}
                /\ filesByGranuleId =
                    groupFilesByGranuleId(config.granuleIdExtraction,
                                          RemoveAt(discoveredFiles, i))

\* C10 witness: a listing with a matching and a non-matching file was
\* classified into one group.
C10_Witness ==
    /\ Classified
    /\ Len(discoveredFiles) = 2
    /\ ~Matches(config.granuleIdExtraction, discoveredFiles[1].name)
    /\ Len(filesByGranuleId) = 1

\* discoverGranules returned its granules
Succeeded == pc = "done" /\ outcome.state = "fulfilled"

\* the indexes of the collection file configs whose regex matches the name
RulesMatching(file) ==
    {i \in DOMAIN config.collection.files :
        Matches(config.collection.files[i].regex, file.name)}

\* the first of them in declaration order
FirstRuleMatching(file) ==
    config.collection.files[CHOOSE i \in RulesMatching(file) :
                                \A j \in RulesMatching(file) : i <= j]

\* the string a setting holds, or `fallback` when it is unset or empty
ValueOrElse(setting, fallback) ==
    IF setting.t = "string" /\ setting.v /= "" THEN setting.v ELSE fallback

\* the ignore-file-rules override: the top-level flag when it is a boolean,
\* else the collection-level flag when it is a boolean, else false
IgnoreRulesOverride ==
    IF config.ignoreFilesConfigForDiscovery.t = "boolean"
    THEN config.ignoreFilesConfigForDiscovery = JsBoolean(TRUE)
    ELSE IF config.collection.ignoreFilesConfigForDiscovery.t = "boolean"
         THEN config.collection.ignoreFilesConfigForDiscovery = JsBoolean(TRUE)
         ELSE FALSE

\* the files of group g as classified, and as emitted in granule g
GroupFiles(g) == filesByGranuleId[g].value
GranuleFiles(g) == outcome.value[g].files

\* C11: with the override false, every emitted file matches a rule and
\* carries exactly the values of the first rule matching its name: the
\* bucket name the table holds for that rule's bucket key, the rule's
\* url_path, else the collection's, else "", and the rule's type, else "";
\* every group file matching a rule is emitted.  Later rules contribute
\* nothing.
C11_EnrichmentDeterminism ==
    (Succeeded /\ ~IgnoreRulesOverride) =>
        \A g \in DOMAIN outcome.value :
            /\ \A k \in DOMAIN GranuleFiles(g) :
                LET file == GranuleFiles(g)[k]
                IN  /\ RulesMatching(file) /= {}
                    /\ file =
                        [name |-> file.name,
                         bucket |-> config.buckets[FirstRuleMatching(file).bucket],
                         url_path |->
                            ValueOrElse(FirstRuleMatching(file).url_path,
                                ValueOrElse(config.collection.url_path, "")),
                         type |-> ValueOrElse(FirstRuleMatching(file).type, "")]
            /\ \A k \in DOMAIN GroupFiles(g) :
                RulesMatching(GroupFiles(g)[k]) /= {} =>
                    \E j \in DOMAIN GranuleFiles(g) :
                        GranuleFiles(g)[j].name = GroupFiles(g)[k].name

\* C11 witness: a file matched by two rules was emitted with the first
\* rule's type and, that rule having no url_path, the collection's url_path.
C11_Witness ==
    /\ Succeeded
    /\ ~IgnoreRulesOverride
    /\ config.collection.files = <<RuleDat, RuleAll>>
    /\ config.collection.url_path = JsString("coll/path")
    /\ \E g \in DOMAIN outcome.value : \E k \in DOMAIN GranuleFiles(g) :
        /\ Cardinality(RulesMatching(GranuleFiles(g)[k])) = 2
        /\ GranuleFiles(g)[k].type = "data"
        /\ GranuleFiles(g)[k].url_path = "coll/path"
        /\ GranuleFiles(g)[k].bucket = "protected-bucket"

C13_PassThroughIdentity ==
    (pc = "done" /\ IgnoreRulesOverride) =>
        /\ outcome.state = "fulfilled"
        /\ Len(outcome.value) = Len(filesByGranuleId)
        /\ \A g \in DOMAIN outcome.value :
            /\ outcome.value[g].granuleId = filesByGranuleId[g].key
            /\ GranuleFiles(g) = GroupFiles(g)

\* C13 witness: the override is true, and a granule was emitted holding a
\* file that matches no rule and a file whose rule names a missing bucket.
C13_Witness ==
    /\ Succeeded
    /\ IgnoreRulesOverride
    /\ config.collection.files = <<RuleQaNoBucket>>
    /\ \E g \in DOMAIN outcome.value :
        /\ Len(GranuleFiles(g)) = 2
        /\ \E k \in DOMAIN GranuleFiles(g) : GranuleFiles(g)[k].name.ext = "qa"

\* the identifiers of the granules discoverGranules returned, in order
GranuleIdsEmitted == [g \in DOMAIN outcome.value |-> outcome.value[g].granuleId]

\* the position in the listing of the first file with identifier `id`
FirstEncounter(id) ==
    CHOOSE i \in DOMAIN discoveredFiles :
        /\ granuleIdOfFile(config.granuleIdExtraction, discoveredFiles[i])
                = JsString(id)
        /\ \A j \in 1..(i - 1) :
            granuleIdOfFile(config.granuleIdExtraction, discoveredFiles[j])
                /= JsString(id)

\* identifier x comes before y in the key order of an object: array indexes
\* first, in ascending numeric order, then the other keys as first met
KeyOrderBefore(x, y) ==
    IF IsArrayIndex(x) /\ IsArrayIndex(y) THEN ArrayIndexOf(x) < ArrayIndexOf(y)
    ELSE IF IsArrayIndex(x) \/ IsArrayIndex(y) THEN IsArrayIndex(x)
    ELSE FirstEncounter(x) < FirstEncounter(y)

\* C14 as stated: on success the granules are in the order in which their
\* identifiers were first met in the listing.
C14_EmittedInFirstEncounterOrder ==
    Succeeded =>
        \A a, b \in DOMAIN outcome.value :
            a < b => FirstEncounter(GranuleIdsEmitted[a])
                        < FirstEncounter(GranuleIdsEmitted[b])

\* C14 as amended: on success the granules are in the key order of the
\* classification object: identifiers that are array indexes first, in
\* ascending numeric order, then the other identifiers in the order in
\* which they were first met in the listing; each surviving identifier once.
C14_EmittedInKeyOrder ==
    Succeeded =>
        /\ IsInjective(GranuleIdsEmitted)
        /\ \A a, b \in DOMAIN outcome.value :
            a < b => KeyOrderBefore(GranuleIdsEmitted[a], GranuleIdsEmitted[b])

\* C14 witness: under skip two identifiers survived; "10" was met first in
\* the listing and is emitted after "2".
C14_Witness ==
    /\ Succeeded
    /\ duplicateHandling = "skip"
    /\ discoveredFiles = <<[name |-> Name("10", "dat")], [name |-> Name("2", "dat")]>>
    /\ GranuleIdsEmitted = <<"2", "10">>

\* C15: on success there is exactly one granule per surviving identifier,
\* each with the collection's dataType and version, whatever is left of its
\* files; under skip the identifiers emitted are exactly the classified
\* identifiers that the catalog does not hold, and under replace and version
\* they are all the classified identifiers.
C15_OneGranulePerSurvivor ==
    Succeeded =>
        /\ IsInjective(GranuleIdsEmitted)
        /\ \A g \in DOMAIN outcome.value :
            /\ outcome.value[g].dataType = config.collection.dataType
            /\ outcome.value[g].version = config.collection.version
        /\ duplicateHandling = "skip" =>
            Range(GranuleIdsEmitted) =
                {id \in Range(granuleIds) : catalog[id] = RespNotFound}
        /\ duplicateHandling \in {"replace", "version"} =>
            Range(GranuleIdsEmitted) =
                Range(ObjKeys(groupFilesByGranuleId(config.granuleIdExtraction,
                                                    discoveredFiles)))

\* C16 as stated: under error, a duplicate-conflict error names the earliest
\* identifier, in input order, that the catalog holds.
C16_ConflictNamesEarliestExisting ==
    ( /\ duplicateHandling = "error"
      /\ filtered.state = "rejected"
      /\ IsDuplicateError(filtered.error) )
    => \E i \in DOMAIN granuleIds :
        /\ filtered.error.message[2] = granuleIds[i]
        /\ catalog[granuleIds[i]].ok
        /\ \A j \in 1..(i - 1) : ~catalog[granuleIds[j]].ok

\* C16 as amended: under error, a duplicate-conflict error names the
\* existing identifier whose lookup was the first to reject, in completion
\* order: when Promise.all rejects, exactly one lookup has rejected, and the
\* error of that lookup is the one filterDuplicates and discoverGranules
\* fail with.
C16_ConflictNamesFirstRejected ==
    (duplicateHandling = "error" /\ LookupsIssued) =>
        /\ FirstRejectionWins
        /\ (keysAll.state = "rejected" /\ IsDuplicateError(keysAll.error)) =>
            \E i \in RejectedLookups :
                /\ keysAll.error = DuplicateError(lookups[i].granuleId)
                /\ catalog[lookups[i].granuleId].ok
        /\ filtered.state = "rejected" => filtered.error = keysAll.error
        /\ pc = "done" =>
            /\ filtered.state = "rejected"
                => outcome = Settled("rejected", <<>>, keysAll.error)
            /\ keysAll.state = "rejected" => filtered.state = "rejected"

\* C16 witness: both identifiers exist, and the error discoverGranules failed
\* with names the second one.
C16_Witness ==
    /\ duplicateHandling = "error"
    /\ pc = "done"
    /\ LookupsIssued
    /\ Len(granuleIds) = 2
    /\ catalog[granuleIds[1]].ok
    /\ catalog[granuleIds[2]].ok
    /\ outcome = Settled("rejected", <<>>, DuplicateError(granuleIds[2]))

\* C17: after classification every group has at least one member, and its
\* key is the string the pattern's first group captured from the name of
\* each member: no group is keyed by a value that was not captured.
C17_GroupKeyedByCapturedId ==
    Classified =>
        \A g \in DOMAIN filesByGranuleId :
            /\ Len(filesByGranuleId[g].value) >= 1
            /\ \A k \in DOMAIN filesByGranuleId[g].value :
                granuleIdOfFile(config.granuleIdExtraction,
                                filesByGranuleId[g].value[k])
                    = JsString(filesByGranuleId[g].key)

\* the files of group g that match at least one collection file config
FilesWithRule(g) ==
    FilterSeq(GroupFiles(g),
              {file \in Range(GroupFiles(g)) : RulesMatching(file) /= {}})

\* C18: with the override false, the files of a granule are the enriched
\* images of the group's files that match at least one rule, in the group's
\* order; files matching no rule are left out, and discoverGranules fails
\* only when a file matches a rule whose bucket is missing from the table.
C18_RulesFilterThenEnrich ==
    (pc = "done" /\ ~IgnoreRulesOverride) =>
        /\ outcome.state = "fulfilled" =>
            \A g \in DOMAIN outcome.value :
                /\ Len(GranuleFiles(g)) = Len(FilesWithRule(g))
                /\ \A k \in DOMAIN GranuleFiles(g) :
                    /\ GranuleFiles(g)[k] =
                        updateFileFromCollectionFileConfig(config,
                                                           FilesWithRule(g)[k])
                    /\ GranuleFiles(g)[k].name = FilesWithRule(g)[k].name
                    /\ {"bucket", "url_path", "type"}
                            \subseteq DOMAIN GranuleFiles(g)[k]
        /\ outcome.state = "rejected" =>
            \E g \in DOMAIN filesByGranuleId :
                \E k \in DOMAIN FilesWithRule(g) :
                    FirstRuleMatching(FilesWithRule(g)[k]).bucket
                        \notin DOMAIN config.buckets

\* C18 witness: of the two files of a group the one matching no rule was
\* left out and the other was emitted.
C18_Witness ==
    /\ Succeeded
    /\ ~IgnoreRulesOverride
    /\ \E g \in DOMAIN outcome.value :
        /\ Len(GroupFiles(g)) = 2
        /\ RulesMatching(GroupFiles(g)[1]) = {}
        /\ Len(GranuleFiles(g)) = 1
        /\ GranuleFiles(g)[1].name = GroupFiles(g)[2].name

\* C19: under skip and error, the lookups are issued together, after the
\* token was fetched, one per input identifier in input order, none of them
\* waiting for another; filterDuplicates returns a list only when every
\* lookup has completed, and settles while a lookup is pending only by
\* failing.
C19_LookupsOnceAllAwaited ==
    duplicateHandling \in {"skip", "error"} =>
        /\ IsInjective(granuleIds)
        /\ lookups /= <<>> => (LookupsIssued /\ tokenFetches = 1)
        /\ LookupsIssued =>
            /\ Len(lookups) = Len(granuleIds)
            /\ \A i \in DOMAIN lookups : lookups[i].granuleId = granuleIds[i]
        /\ ~LookupsIssued => lookups = <<>>
        /\ filtered.state = "fulfilled" =>
            /\ LookupsIssued
            /\ \A i \in DOMAIN lookups : lookups[i].state = "fulfilled"
            /\ keysAll.state = "fulfilled"
        /\ ( /\ filtered.state /= "pending"
             /\ \E i \in DOMAIN lookups : lookups[i].state = "pending" )
            => filtered.state = "rejected"

\* C19 witness: two lookups were issued and both completed before
\* filterDuplicates returned its list.
C19_Witness ==
    /\ duplicateHandling = "skip"
    /\ Len(lookups) = 2
    /\ filtered.state = "fulfilled"
    /\ Len(filtered.value) = 1

\* the bucket keys, missing from config.buckets, of the rules that apply to
\* the files of the surviving groups
MissingBucketKeys ==
    UNION {{FirstRuleMatching(file).bucket :
                file \in {x \in Range(filesByGranuleId[g].value) :
                            RulesMatching(x) /= {}}} :
            g \in DOMAIN filesByGranuleId}
        \ DOMAIN config.buckets

\* C20: with the override false, when a file of a surviving group matches a
\* rule whose bucket key is missing from the bucket table, discoverGranules
\* returns no granules and fails with an error that carries the missing
\* bucket key.
C20_MissingBucketSurfaced ==
    ( /\ pc = "done"
      /\ handled.state = "fulfilled"
      /\ ~IgnoreRulesOverride
      /\ MissingBucketKeys /= {} )
    => /\ outcome.state = "rejected"
       /\ \E key \in MissingBucketKeys : key \in Range(outcome.error.message)

\* the records this invocation has handled with the given outcomes
VisitedWith(errors) == {i \in DOMAIN visited : visited[i].error \in errors}

\* the outcomes that count as failed
FailureErrors == {"SchemaValidationError", "KnexError", "DecryptError", "KMSError"}

\* C21: migrateProviders handles the records in queue order, each once, and
\* goes on after a record that could not be migrated: whenever it awaits
\* the next peek and when it returns, dynamoRecords = success + failed +
\* skipped and the records handled are the first dynamoRecords records of
\* the queue; when it returns, dynamoRecords is the number of records.
C21_EveryRecordCountedOnce ==
    /\ Len(visited) <= Len(sourceRecords)
    /\ \A i \in DOMAIN visited : visited[i].id = sourceRecords[i].id
    /\ migrationSummary.success = Cardinality(VisitedWith({""}))
    /\ migrationSummary.skipped = Cardinality(VisitedWith({"RecordAlreadyMigrated"}))
    /\ migrationSummary.failed = Cardinality(VisitedWith(FailureErrors))
    /\ mpc \in {"peek", "returned"} =>
        /\ migrationSummary.dynamoRecords =
            migrationSummary.success + migrationSummary.failed
                + migrationSummary.skipped
        /\ migrationSummary.dynamoRecords = Len(visited)
        /\ searchQueue = SubSeq(sourceRecords, Len(visited) + 1, Len(sourceRecords))
    /\ mpc = "returned" =>
        /\ migrationSummary.dynamoRecords = Len(sourceRecords)
        /\ searchQueue = <<>>

\* C21 witness: migrateProviders returned after two records, the first of
\* which failed and the second of which was migrated.
C21_Witness ==
    /\ mpc = "returned"
    /\ Len(visited) = 2
    /\ visited[1].error \in FailureErrors
    /\ visited[2].error = ""
    /\ migrationSummary = [dynamoRecords |-> 2, success |-> 1, failed |-> 1,
                           skipped |-> 0]

\* C22 as stated: a record whose name is in the relational table makes
\* migrateProviderRecord throw RecordAlreadyMigrated without an insert or an
\* encryption call, and a second invocation skips every record the first
\* one migrated.
C22_ExistingNameIsSkipped ==
    /\ \A i \in DOMAIN visited :
        visited[i].existed =>
            /\ visited[i].error = "RecordAlreadyMigrated"
            /\ visited[i].added = {}
            /\ visited[i].encryptCalls = 0
    /\ run = "second" =>
        \A i \in DOMAIN visited :
            visited[i].id \in firstRun =>
                /\ visited[i].error = "RecordAlreadyMigrated"
                /\ visited[i].added = {}

\* C22 as amended: a record whose name is in the relational table is never
\* inserted and none of its credentials is encrypted; migrateProviderRecord
\* throws the validation error when the record is invalid, else the error
\* of the lookup when that fails, else RecordAlreadyMigrated.  A second
\* invocation counts a record the first one migrated as skipped, or as
\* failed when its lookup fails, never as success, and adds no row for it.
C22_ExistingNameNeverMigratedAgain ==
    /\ \A i \in DOMAIN visited :
        visited[i].existed =>
            /\ visited[i].added = {}
            /\ visited[i].encryptCalls = 0
            /\ visited[i].error \in
                IF sourceRecords[i].valid
                THEN {"RecordAlreadyMigrated", "KnexError"}
                ELSE {"SchemaValidationError"}
    /\ run = "second" =>
        /\ \A i \in DOMAIN visited :
            visited[i].id \in firstRun =>
                /\ visited[i].existed
                /\ sourceRecords[i].valid
                /\ visited[i].error \in {"RecordAlreadyMigrated", "KnexError"}
                /\ visited[i].added = {}
        /\ migrationSummary.success =
            Cardinality({i \in VisitedWith({""}) : visited[i].id \notin firstRun})
        /\ migrationSummary.skipped >=
            Cardinality({i \in VisitedWith({"RecordAlreadyMigrated"}) :
                            visited[i].id \in firstRun})

\* C22 witness: the second invocation returned; it skipped a record with
\* credentials that the first one had migrated, and counted as failed an
\* invalid record whose name was in the table from the start.
C22_Witness ==
    /\ run = "second"
    /\ mpc = "returned"
    /\ Len(visited) = 2
    /\ \E i, j \in DOMAIN visited :
        /\ visited[i].id \in firstRun
        /\ sourceRecords[i].username /= NoCredential
        /\ visited[i].error = "RecordAlreadyMigrated"
        /\ visited[j].existed
        /\ visited[j].error = "SchemaValidationError"
    /\ migrationSummary = [dynamoRecords |-> 2, success |-> 0, failed |-> 1,
                           skipped |-> 1]

=============================================================================
